---- MODULE Spec2Model ----
(***************************************************************************)
(* A model of the Code Map & Lens engine of understand-first:              *)
(*   cli/ucli/analyzers/python_analyzer.py  (scanner and content cache)    *)
(*   cli/ucli/lens/lens.py                  (lens, trace merge, ranking)   *)
(* Python strings are modelled as sequences of one-character strings, so   *)
(* that substring, suffix and split are computed and not assumed.          *)
(***************************************************************************)
EXTENDS Integers, Sequences, FiniteSets, TLC

VARIABLES
    \* ---- the world the scanner runs in
    fs,          \* the tree under root: path -> [exists, content, mtime, readable]
    store,       \* committed rows of the sqlite table "files": path -> row
    storeOk,     \* FALSE when the cache file cannot be opened as a database
    \* ---- one invocation of build_python_map
    pc,          \* "idle", "parse", "aggregate", "commit", "done", "raised"
    use_cache,   \* parameter use_cache
    procs,       \* resolved worker count (line 109)
    files,       \* candidate files found by the walk
    cache,       \* rows loaded at the start of the scan
    functions,   \* the functions map being built
    work,        \* files to parse
    results,     \* per-file parse results, indexed like work
    finished,    \* indices of work whose parse task has returned, in order of return
    agg,         \* number of (work, result) pairs already aggregated
    txn,         \* rows written by this scan and not yet committed
    \* ---- the lens engine
    heap,        \* the function records, by reference: ref -> record
    repo_map,    \* the CodeMap held by the caller: [order, functions: name -> ref]
    lenses       \* the lenses held by the caller: slot -> lens, each with the record
                 \* of the call that built it (its arguments, its keep set per hop)

scanVars == <<pc, use_cache, procs, files, cache, functions, work, results, finished, agg, txn>>
worldVars == <<fs, store, storeOk>>
lensVars == <<heap, repo_map, lenses>>

----------------------------------------------------------------------------
(* Strings                                                                 *)

\* s in t (Python's substring test on str)
IsSubstr(s, t) ==
    \E i \in 0..(Len(t) - Len(s)) : SubSeq(t, i + 1, i + Len(s)) = s

\* t.endswith(s)
EndsWith(t, s) ==
    /\ Len(s) <= Len(t)
    /\ SubSeq(t, Len(t) - Len(s) + 1, Len(t)) = s

\* t.startswith(s)
StartsWith(t, s) ==
    /\ Len(s) <= Len(t)
    /\ SubSeq(t, 1, Len(s)) = s

\* the largest index of character c in s, 0 when c does not occur (s.rfind(c) + 1)
RFind(s, c) ==
    LET hits == {i \in 1..Len(s) : s[i] = c}
    IN IF hits = {} THEN 0 ELSE CHOOSE i \in hits : \A j \in hits : j <= i

\* s.split(c)[-1]
LastSegment(s, c) == SubSeq(s, RFind(s, c) + 1, Len(s))

RECURSIVE Split(_, _)
\* s.split(c), for a one-character separator
Split(s, c) ==
    LET hits == {i \in 1..Len(s) : s[i] = c}
    IN IF hits = {} THEN <<s>>
       ELSE LET i == CHOOSE k \in hits : \A j \in hits : j <= k
            IN Append(Split(SubSeq(s, 1, i - 1), c), SubSeq(s, i + 1, Len(s)))

\* the set of characters of s (Python's set(s))
CharSet(s) == {s[i] : i \in 1..Len(s)}

----------------------------------------------------------------------------
(* Paths (pathlib.Path in posix form)                                      *)

\* path.parts
Parts(path) == Split(path, "/")

\* path.name
PathName(path) == LastSegment(path, "/")

\* path.suffix: the last dot of the name and what follows, when the dot is
\* neither the first nor the last character of the name
PathSuffix(path) ==
    LET name == PathName(path)
        i == RFind(name, ".")
    IN IF i > 1 /\ i < Len(name) THEN SubSeq(name, i, Len(name)) ELSE <<>>

\* path.with_suffix("")
WithoutSuffix(path) == SubSeq(path, 1, Len(path) - Len(PathSuffix(path)))

IsCodeFileNameOnly(path) ==
    /\ PathSuffix(path) = <<".", "p", "y">>
    /\ ~ StartsWith(PathName(path), <<".">>)

\* _is_code_file
IsCodeFile(path) ==
    /\ PathSuffix(path) = <<".", "p", "y">>
    /\ ~ \E k \in 1..Len(Parts(path)) : StartsWith(Parts(path)[k], <<".">>)

\* qn: "<path without suffix>:<function name>"
Qn(file_path, func_name) == WithoutSuffix(file_path) \o <<":">> \o func_name

----------------------------------------------------------------------------
(* Source texts.  A text is known by its digest, its length in bytes and   *)
(* the syntax tree ast.parse builds from it (or its failure to parse).     *)
(* A tree node is a function definition, a call or any other node, with    *)
(* the children generic_visit walks, in order.                             *)

Def(name, kids) == [kind |-> "def", name |-> name, kids |-> kids]
Call(callee, kids) == [kind |-> "call", name |-> callee, kids |-> kids]
Other(kids) == [kind |-> "other", name |-> <<>>, kids |-> kids]

N_f == <<"f">>
N_g == <<"g">>
N_h == <<"h">>

\* def f(): g()
SrcFG == [sha |-> "sha-fg", size |-> 14, parses |-> TRUE,
          tree |-> <<Def(N_f, <<Call(N_g, <<>>)>>)>>]
\* def f(): h()      (same length, other bytes)
SrcFH == [sha |-> "sha-fh", size |-> 14, parses |-> TRUE,
          tree |-> <<Def(N_f, <<Call(N_h, <<>>)>>)>>]
\* def f(: g()       (a syntax error)
SrcBad == [sha |-> "sha-bad", size |-> 13, parses |-> FALSE, tree |-> <<>>]

Sources == {SrcFG, SrcFH, SrcBad}

\* what a source file can hold
NoContent == [sha |-> "", size |-> 0, parses |-> FALSE, tree |-> <<>>]
NoFile == [exists |-> FALSE, content |-> NoContent, mtime |-> 0, readable |-> FALSE]

\* the files of the tree, listed in the order of the walk: two Python sources,
\* a text file, a hidden Python file and a Python file of a hidden directory
P_a == <<"r", "/", "a", ".", "p", "y">>
P_b == <<"r", "/", "b", ".", "p", "y">>
P_txt == <<"r", "/", "a", ".", "t", "x", "t">>
P_dot == <<"r", "/", ".", "a", ".", "p", "y">>
P_hid == <<"r", "/", ".", "h", "/", "a", ".", "p", "y">>
WalkOrder == <<P_a, P_b, P_txt, P_dot, P_hid>>
TreePaths == {WalkOrder[k] : k \in 1..Len(WalkOrder)}
\* the two Python sources
ScanPaths == {P_a, P_b}

\* st_mtime is a float of seconds: the tree keeps it in ticks of 1/TicksPerSecond s
TicksPerSecond == 2
MaxMtime == 2

----------------------------------------------------------------------------
(* _parse_file                                                             *)

NoFunc == <<>>

ResetFuncKeeping(cbf, name) ==
    [n \in DOMAIN cbf \cup {name} |-> IF n \in DOMAIN cbf THEN cbf[n] ELSE <<>>]

\* calls_by_func[current_func] = []  (a second definition of the name resets it)
ResetFunc(cbf, name) ==
    [n \in DOMAIN cbf \cup {name} |-> IF n = name THEN <<>> ELSE cbf[n]]

RECURSIVE Visit(_, _), VisitAll(_, _)
\* Visitor.visit on one node; st = [cur: current_func, cbf: calls_by_func]
Visit(node, st) ==
    CASE node.kind = "def" ->
            LET entered == [cur |-> node.name, cbf |-> ResetFunc(st.cbf, node.name)]
                inside == VisitAll(node.kids, entered)
            IN [inside EXCEPT !.cur = NoFunc]
      [] node.kind = "call" ->
            LET noted == IF st.cur # NoFunc /\ node.name # <<>>
                         THEN [st EXCEPT !.cbf[st.cur] = Append(@, node.name)]
                         ELSE st
            IN VisitAll(node.kids, noted)
      [] OTHER -> VisitAll(node.kids, st)

\* generic_visit: the children in order, each from the state the last one left
VisitAll(kids, st) ==
    IF kids = <<>> THEN st
    ELSE VisitAll(Tail(kids), Visit(Head(kids), st))

\* the per-file result: function name -> {"file", "calls"}; {} when the file
\* cannot be read or parsed
ParseFile(fsys, file_path) ==
    LET f == fsys[file_path]
    IN IF ~ (f.exists /\ f.readable /\ f.content.parses) THEN <<>>
       ELSE LET cbf == VisitAll(f.content.tree, [cur |-> NoFunc, cbf |-> <<>>]).cbf
            IN [func \in DOMAIN cbf |-> [file |-> file_path, calls |-> cbf[func]]]

----------------------------------------------------------------------------
(* The content cache                                                       *)

\* _file_signature: (int(st_mtime), st_size, sha256 of the bytes); stat or
\* read_bytes raise on a missing or unreadable file
FileSignature(fsys, file_path) ==
    LET f == fsys[file_path]
    IN IF f.exists /\ f.readable
       THEN [ok |-> TRUE, mtime |-> f.mtime \div TicksPerSecond,
             size |-> f.content.size, sha |-> f.content.sha]
       ELSE [ok |-> FALSE, mtime |-> 0, size |-> 0, sha |-> ""]

\* json.dumps of a per-file result: the text of a JSON object, known by its members
JsonDumps(data) == [valid |-> TRUE, members |-> {<<k, data[k]>> : k \in DOMAIN data}]

\* text that is not JSON
JsonGarbage == [valid |-> FALSE, members |-> {}]

\* json.loads of a valid text
JsonLoads(text) ==
    LET keys == {m[1] : m \in text.members}
    IN [k \in keys |-> (CHOOSE m \in text.members : m[1] = k)[2]]

CacheHitNoSha(rows, file_path, sig) ==
    /\ file_path \in DOMAIN rows
    /\ rows[file_path].mtime = sig.mtime
    /\ rows[file_path].size = sig.size

CacheHitNoMtime(rows, file_path, sig) ==
    /\ file_path \in DOMAIN rows
    /\ rows[file_path].size = sig.size
    /\ rows[file_path].sha = sig.sha

\* line 96: row and row[0] == mtime and row[1] == size and row[2] == sha
CacheHit(rows, file_path, sig) ==
    /\ file_path \in DOMAIN rows
    /\ rows[file_path].mtime = sig.mtime
    /\ rows[file_path].size = sig.size
    /\ rows[file_path].sha = sig.sha

\* d.update(e) on dicts
DictUpdate(d, e) ==
    [k \in DOMAIN d \cup DOMAIN e |-> IF k \in DOMAIN e THEN e[k] ELSE d[k]]

\* functions[qn(file_path, func)] = meta, for every func of a per-file result
MergeResult(funcs, file_path, data) ==
    LET named == {Qn(file_path, func) : func \in DOMAIN data}
        new == [q \in named |->
                   data[CHOOSE func \in DOMAIN data : Qn(file_path, func) = q]]
    IN DictUpdate(funcs, new)

ReplaceRowSkipEmpty(rows, file_path, sig, data) ==
    IF DOMAIN data = {} THEN rows
    ELSE DictUpdate(rows, [p \in {file_path} |->
            [mtime |-> sig.mtime, size |-> sig.size, sha |-> sig.sha, data |-> JsonDumps(data)]])

\* REPLACE INTO files(path, mtime, size, sha, data)
ReplaceRow(rows, file_path, sig, data) ==
    DictUpdate(rows, [p \in {file_path} |->
        [mtime |-> sig.mtime, size |-> sig.size, sha |-> sig.sha, data |-> JsonDumps(data)]])

----------------------------------------------------------------------------
(* build_python_map                                                        *)

RECURSIVE SelectSeq2(_, _)
\* the walk: the code files among the files that exist, in walk order
SelectSeq2(seq, fsys) ==
    IF seq = <<>> THEN <<>>
    ELSE LET rest == SelectSeq2(Tail(seq), fsys)
         IN IF fsys[Head(seq)].exists /\ IsCodeFile(Head(seq))
            THEN <<Head(seq)>> \o rest ELSE rest

Walk(fsys) == SelectSeq2(WalkOrder, fsys)

\* the records of every row of the cache, keyed by qualified name
AllRowFunctions(rows) ==
    LET named == UNION {{<<p, m>> : m \in rows[p].data.members} : p \in DOMAIN rows}
        qns == {Qn(pm[1], pm[2][1]) : pm \in named}
    IN [q \in qns |-> (CHOOSE pm \in named : Qn(pm[1], pm[2][1]) = q)[2][2]]

RECURSIVE PartitionAllRows(_, _, _, _, _)
PartitionAllRows(fsys, uc, rows, todo, st) ==
    IF ~st.ok THEN st
    ELSE IF todo = <<>> THEN [st EXCEPT !.functions = DictUpdate(AllRowFunctions(rows), @)]
    ELSE LET file_path == Head(todo)
             sig == FileSignature(fsys, file_path)
         IN IF ~uc
            THEN PartitionAllRows(fsys, uc, rows, Tail(todo),
                           [st EXCEPT !.work = Append(@, file_path)])
            ELSE IF ~sig.ok THEN [st EXCEPT !.ok = FALSE]
            ELSE IF CacheHit(rows, file_path, sig)
            THEN IF ~rows[file_path].data.valid THEN [st EXCEPT !.ok = FALSE]
                 ELSE PartitionAllRows(fsys, uc, rows, Tail(todo),
                        [st EXCEPT !.functions =
                            MergeResult(@, file_path, JsonLoads(rows[file_path].data))])
            ELSE PartitionAllRows(fsys, uc, rows, Tail(todo),
                           [st EXCEPT !.work = Append(@, file_path)])

RECURSIVE Partition(_, _, _, _, _)
\* lines 91-104: st = [ok, functions, work]; ok turns FALSE when a statement raises
Partition(fsys, uc, rows, todo, st) ==
    IF todo = <<>> \/ ~st.ok THEN st
    ELSE LET file_path == Head(todo)
             sig == FileSignature(fsys, file_path)
         IN IF ~uc
            THEN Partition(fsys, uc, rows, Tail(todo),
                           [st EXCEPT !.work = Append(@, file_path)])
            ELSE IF ~sig.ok THEN [st EXCEPT !.ok = FALSE]
            ELSE IF CacheHit(rows, file_path, sig)
            THEN IF ~rows[file_path].data.valid THEN [st EXCEPT !.ok = FALSE]
                 ELSE Partition(fsys, uc, rows, Tail(todo),
                        [st EXCEPT !.functions =
                            MergeResult(@, file_path, JsonLoads(rows[file_path].data))])
            ELSE Partition(fsys, uc, rows, Tail(todo),
                           [st EXCEPT !.work = Append(@, file_path)])

ScanLocalsReset ==
    /\ use_cache' = FALSE
    /\ procs' = 1
    /\ files' = <<>>
    /\ cache' = <<>>
    /\ functions' = <<>>
    /\ work' = <<>>
    /\ results' = <<>>
    /\ finished' = <<>>
    /\ agg' = 0
    /\ txn' = <<>>

\* lines 68-104: the walk, the opening and loading of the cache, the partition
ScanStart(uc, pr) ==
    /\ pc = "idle"
    /\ use_cache' = uc
    /\ procs' = pr
    /\ files' = Walk(fs)
    /\ finished' = <<>>
    /\ agg' = 0
    /\ txn' = <<>>
    /\ UNCHANGED worldVars
    /\ UNCHANGED lensVars
    /\ IF uc /\ ~storeOk
       THEN \* _open_cache raises sqlite3.DatabaseError
            /\ pc' = "raised"
            /\ cache' = <<>>
            /\ functions' = <<>>
            /\ work' = <<>>
            /\ results' = <<>>
       ELSE LET rows == IF uc THEN store ELSE <<>>
                part == Partition(fs, uc, rows, Walk(fs),
                                  [ok |-> TRUE, functions |-> <<>>, work |-> <<>>])
            IN /\ cache' = rows
               /\ functions' = part.functions
               /\ work' = part.work
               /\ results' = [k \in 1..Len(part.work) |-> <<>>]
               /\ pc' = IF ~part.ok THEN "raised"
                        ELSE IF part.work = <<>> THEN "done" ELSE "parse"

\* the parse tasks that have returned
Completed == {finished[n] : n \in 1..Len(finished)}

PoolStoreByCompletion(res, done, k, data) == [res EXCEPT ![Len(done) + 1] = data]

\* pool.map puts each task's result at the index of its argument
PoolStore(res, done, k, data) == [res EXCEPT ![k] = data]

\* line 114: the next file of work, in order, in the calling process
ParseSequential ==
    /\ pc = "parse"
    /\ procs = 1
    /\ LET k == Len(finished) + 1
       IN /\ results' = [results EXCEPT ![k] = ParseFile(fs, work[k])]
          /\ finished' = Append(finished, k)
          /\ pc' = IF k = Len(work) THEN "aggregate" ELSE "parse"
    /\ UNCHANGED <<use_cache, procs, files, cache, functions, work, agg, txn>>
    /\ UNCHANGED worldVars
    /\ UNCHANGED lensVars

\* line 112: some worker of the pool finishes the task of work[k]
WorkerParse(k) ==
    /\ pc = "parse"
    /\ procs > 1
    /\ k \in 1..Len(work)
    /\ k \notin Completed
    /\ results' = PoolStore(results, finished, k, ParseFile(fs, work[k]))
    /\ finished' = Append(finished, k)
    /\ UNCHANGED <<pc, use_cache, procs, files, cache, functions, work, agg, txn>>
    /\ UNCHANGED worldVars
    /\ UNCHANGED lensVars

PoolJoinEarly ==
    /\ pc = "parse"
    /\ procs > 1
    /\ finished # <<>>
    /\ pc' = "aggregate"
    /\ UNCHANGED <<use_cache, procs, files, cache, functions, work, results, finished, agg, txn>>
    /\ UNCHANGED worldVars
    /\ UNCHANGED lensVars

\* line 112: pool.map returns once every task has returned
PoolJoin ==
    /\ pc = "parse"
    /\ procs > 1
    /\ Completed = 1..Len(work)
    /\ pc' = "aggregate"
    /\ UNCHANGED <<use_cache, procs, files, cache, functions, work, results, finished, agg, txn>>
    /\ UNCHANGED worldVars
    /\ UNCHANGED lensVars

\* lines 116-126: one turn of the loop over zip(work, results)
Aggregate ==
    /\ pc = "aggregate"
    /\ agg < Len(work)
    /\ LET file_path == work[agg + 1]
           data == results[agg + 1]
           sig == FileSignature(fs, file_path)
       IN /\ functions' = MergeResult(functions, file_path, data)
          /\ IF use_cache /\ ~sig.ok
             THEN /\ pc' = "raised"
                  /\ UNCHANGED <<agg, txn>>
             ELSE /\ agg' = agg + 1
                  /\ txn' = IF use_cache THEN ReplaceRow(txn, file_path, sig, data) ELSE txn
                  /\ pc' = IF agg + 1 = Len(work) THEN "commit" ELSE "aggregate"
    /\ UNCHANGED <<use_cache, procs, files, cache, work, results, finished>>
    /\ UNCHANGED worldVars
    /\ UNCHANGED lensVars

\* lines 127-130: commit the rows written, return the map
Commit ==
    /\ pc = "commit"
    /\ store' = IF use_cache THEN DictUpdate(store, txn) ELSE store
    /\ txn' = <<>>
    /\ pc' = "done"
    /\ UNCHANGED <<use_cache, procs, files, cache, functions, work, results, finished, agg>>
    /\ UNCHANGED <<fs, storeOk>>
    /\ UNCHANGED lensVars

\* the caller takes the map (or the exception); the locals of the call are gone
Return ==
    /\ pc \in {"done", "raised"}
    /\ pc' = "idle"
    /\ ScanLocalsReset
    /\ UNCHANGED worldVars
    /\ UNCHANGED lensVars

----------------------------------------------------------------------------
(* The tree changes under the scanner                                      *)

\* a file is created or rewritten with content c at time m
WriteFile(p, c, m) ==
    /\ fs' = [fs EXCEPT ![p] = [exists |-> TRUE, content |-> c, mtime |-> m, readable |-> TRUE]]
    /\ UNCHANGED <<store, storeOk>>
    /\ UNCHANGED scanVars
    /\ UNCHANGED lensVars

\* a file is deleted
DeleteFile(p) ==
    /\ fs[p].exists
    /\ fs' = [fs EXCEPT ![p] = NoFile]
    /\ UNCHANGED <<store, storeOk>>
    /\ UNCHANGED scanVars
    /\ UNCHANGED lensVars

\* a file loses its read permission (or is a link to nothing): it is still listed
MakeUnreadable(p) ==
    /\ fs[p].exists
    /\ fs[p].readable
    /\ fs' = [fs EXCEPT ![p].readable = FALSE]
    /\ UNCHANGED <<store, storeOk>>
    /\ UNCHANGED scanVars
    /\ UNCHANGED lensVars

\* the cache file is overwritten with bytes that are no database
CorruptStore ==
    /\ storeOk
    /\ storeOk' = FALSE
    /\ store' = <<>>
    /\ UNCHANGED fs
    /\ UNCHANGED scanVars
    /\ UNCHANGED lensVars

\* the data column of one row is damaged
CorruptRow(p) ==
    /\ p \in DOMAIN store
    /\ store[p].data.valid
    /\ store' = [store EXCEPT ![p].data = JsonGarbage]
    /\ UNCHANGED <<fs, storeOk>>
    /\ UNCHANGED scanVars
    /\ UNCHANGED lensVars

InitScan ==
    /\ fs = [p \in TreePaths |-> NoFile]
    /\ store = <<>>
    /\ storeOk = TRUE
    /\ pc = "idle"
    /\ use_cache = FALSE
    /\ procs = 1
    /\ files = <<>>
    /\ cache = <<>>
    /\ functions = <<>>
    /\ work = <<>>
    /\ results = <<>>
    /\ finished = <<>>
    /\ agg = 0
    /\ txn = <<>>

----------------------------------------------------------------------------
(* Function records and the CodeMap.  A Python dict of records holds       *)
(* references: two dicts can hold the same record object.                  *)

\* a record as the scanner makes it: {"file", "calls"}, no other key
MkRec(file, calls) ==
    [file |-> file, calls |-> calls, keys |-> {}, runtime_hit |-> FALSE, error_proximity |-> 0]

\* a CodeMap document: the qualified names in dict order, and each one's record
MkDoc(order, recs) == [order |-> order, recs |-> recs]

\* the records of a document put in memory, one object per function
HeapOf(doc) == [r \in 1..Len(doc.order) |-> doc.recs[doc.order[r]]]

\* repo_map["functions"]: qualified name -> reference, in the order of the document
MapOf(doc) ==
    [order |-> doc.order,
     functions |-> [q \in {doc.order[r] : r \in 1..Len(doc.order)} |->
                       CHOOSE r \in 1..Len(doc.order) : doc.order[r] = q]]

\* what a dict of references shows: qualified name -> record
View(h, fns) == [q \in DOMAIN fns |-> h[fns[q]]]

\* meta.get("calls", []) as the set the loops range over
CallsOf(recs, q) == {recs[q].calls[n] : n \in 1..Len(recs[q].calls)}

----------------------------------------------------------------------------
(* _neighbors                                                              *)

SeedMatchedAll(recs, seed_keys) ==
    {q \in DOMAIN recs : \A tok \in seed_keys : IsSubstr(tok, q)}

\* lines 12-15: the names that have some seed as a substring
SeedMatched(recs, seed_keys) ==
    {q \in DOMAIN recs : \E tok \in seed_keys : IsSubstr(tok, q)}

DownstreamSuffixOnly(recs, keep) ==
    {q2 \in DOMAIN recs :
        \E q \in keep : \E callee \in CallsOf(recs, q) : EndsWith(q2, <<":">> \o callee)}

\* lines 19-23: what the callee names of the kept functions select
Downstream(recs, keep) ==
    {q2 \in DOMAIN recs :
        \E q \in keep : \E callee \in CallsOf(recs, q) :
            EndsWith(q2, <<":">> \o callee) \/ IsSubstr(callee, q2)}

\* lines 24-26: a function not kept is added when a callee name of a kept
\* function is a substring of its qualified name
Upstream(recs, keep) ==
    {q \in DOMAIN recs \ keep :
        \E k \in keep : \E c \in CallsOf(recs, k) : IsSubstr(c, q)}

HopFromEmpty(recs, keep) == Downstream(recs, keep) \cup Upstream(recs, keep)

HopSuffixOnly(recs, keep) == keep \cup DownstreamSuffixOnly(recs, keep)

\* lines 19-26: the body of the inner loop for one function q; keep is the set
\* kept when the turn began, new the set being built
HopVisit(recs, keep, new, q) ==
    IF q \in keep
    THEN new \cup {q2 \in DOMAIN recs :
                     \E callee \in CallsOf(recs, q) :
                         EndsWith(q2, <<":">> \o callee) \/ IsSubstr(callee, q2)}
    ELSE IF \E k \in keep : \E c \in CallsOf(recs, k) : IsSubstr(c, q)
         THEN new \cup {q}
         ELSE new

RECURSIVE HopWalk(_, _, _, _)
\* lines 17-27: for q, meta in functions.items(), the items coming in this order
HopWalk(recs, order, keep, new) ==
    IF order = <<>> THEN new
    ELSE HopWalk(recs, Tail(order), keep, HopVisit(recs, keep, new, Head(order)))

HopInPlace(recs, keep) ==
    LET first == keep \cup Downstream(recs, keep) \cup Upstream(recs, keep)
    IN first \cup Downstream(recs, first) \cup Upstream(recs, first)

\* lines 17-27: one turn of the loop; new starts as a copy of keep
Hop(recs, keep) == keep \cup Downstream(recs, keep) \cup Upstream(recs, keep)

RECURSIVE HopLoop(_, _, _)
\* line 16: for _ in range(hops); trace holds keep before the loop and after each turn
HopLoop(recs, trace, remaining) ==
    IF remaining <= 0 THEN trace
    ELSE HopLoop(recs, Append(trace, Hop(recs, trace[Len(trace)])), remaining - 1)

\* the keep sets of _neighbors(functions, seed_keys, hops)
KeepTrace(recs, seed_keys, hops) ==
    HopLoop(recs, <<SeedMatched(recs, seed_keys)>>, hops)

\* the set kept when the loop ends
Kept(recs, seed_keys, hops) ==
    LET trace == KeepTrace(recs, seed_keys, hops) IN trace[Len(trace)]

NeighborsFirstRecord(h, fns, seed_keys, hops) ==
    [q \in Kept(View(h, fns), seed_keys, hops) |->
        fns[CHOOSE q1 \in DOMAIN fns : \A q2 \in DOMAIN fns : fns[q1] <= fns[q2]]]

\* line 28: {q: functions[q] for q in keep}, the values being the map's own records
Neighbors(h, fns, seed_keys, hops) ==
    [q \in Kept(View(h, fns), seed_keys, hops) |-> fns[q]]

----------------------------------------------------------------------------
(* _extract_candidates                                                     *)

Letters == {"a", "b", "c", "d", "e", "f", "g", "h", "i", "j", "k", "l", "m", "n",
            "p", "q", "w", "x", "y", "z", "_"}
Digits == {"1", "2"}
\* [A-Za-z0-9_] and \w
WordChars == Letters \cup Digits
\* [\w./-]
PathChars == WordChars \cup {".", "/", "-"}

\* the index where the run of characters of class cls that ends at j begins
RunStart(text, j, cls) ==
    CHOOSE i \in 1..(j + 1) :
        /\ \A n \in i..j : text[n] \in cls
        /\ i = 1 \/ text[i - 1] \notin cls

\* re.findall(r"[\w./-]+\.py", text): in each run of path characters, the longest
\* prefix that ends in ".py" and has a character before it
FileCandidates(text) ==
    LET InRun(i, e) == \A n \in i..e : text[n] \in PathChars
        EndsPy(i, e) == e - i >= 3 /\ InRun(i, e) /\ SubSeq(text, e - 2, e) = <<".", "p", "y">>
        matches == {ie \in (1..Len(text)) \X (1..Len(text)) :
                       /\ text[ie[1]] \in PathChars
                       /\ ie[1] = 1 \/ text[ie[1] - 1] \notin PathChars
                       /\ EndsPy(ie[1], ie[2])
                       /\ \A e2 \in (ie[2] + 1)..Len(text) : ~EndsPy(ie[1], e2)}
    IN {SubSeq(text, ie[1], ie[2]) : ie \in matches}

\* re.findall(r"([A-Za-z_][A-Za-z0-9_]*)\(", text): before each "(", the run of
\* word characters from its first letter or underscore on
FuncCandidates(text) ==
    LET Starts(p) == {n \in RunStart(text, p - 1, WordChars)..(p - 1) : text[n] \in Letters}
        parens == {p \in 2..Len(text) :
                      text[p] = "(" /\ text[p - 1] \in WordChars /\ Starts(p) # {}}
    IN {SubSeq(text, CHOOSE n \in Starts(p) : \A k \in Starts(p) : n <= k, p - 1) :
           p \in parens}

\* _extract_candidates: list(set(files + funcs))
ExtractCandidates(text) == FileCandidates(text) \cup FuncCandidates(text)

----------------------------------------------------------------------------
(* lens_from_issue, lens_from_seeds                                        *)

\* line 36: how many seeds the fallback takes at most
TopSeeds == 10

Pos(order, q) == CHOOSE r \in 1..Len(order) : order[r] = q

RankedBeforeAscending(recs, order, q1, q2) ==
    \/ Len(recs[q1].calls) < Len(recs[q2].calls)
    \/ /\ Len(recs[q1].calls) = Len(recs[q2].calls)
       /\ Pos(order, q1) < Pos(order, q2)

\* line 36: sorted(fns.items(), key=number of calls, reverse=True) is stable, so q1
\* comes before q2 when it has more calls, or as many and comes first in the dict
RankedBefore(recs, order, q1, q2) ==
    \/ Len(recs[q1].calls) > Len(recs[q2].calls)
    \/ /\ Len(recs[q1].calls) = Len(recs[q2].calls)
       /\ Pos(order, q1) < Pos(order, q2)

\* lines 35-37: the keys of the first ten of the ranking
FallbackSeeds(recs, order) ==
    {q \in DOMAIN recs :
        Cardinality({q1 \in DOMAIN recs : RankedBefore(recs, order, q1, q)}) < TopSeeds}

\* the call that built a lens: the entry point, the seeds given (or extracted from
\* the issue), the hop count and keep before the loop and after each of its turns
MkCall(entry, given, hops, keeps) ==
    [entry |-> entry, given |-> given, hops |-> hops, keeps |-> keeps]

NoCall == MkCall("none", {}, 0, <<>>)

\* a lens as its constructors return it: {"lens": {"seeds": list(seed_keys)},
\* "functions": lens_funcs}; the list of a set has each seed once
\* absent holds the keys the document lacks; outcome tells how the last
\* merge_trace_into_lens or rank_by_error_proximity call on it ended
MkLens(seed_keys, lens_funcs, call) ==
    [built |-> TRUE, seeds |-> seed_keys, functions |-> lens_funcs,
     has_runtime |-> FALSE, hit_count |-> 0, call |-> call,
     absent |-> {}, outcome |-> "none"]

NoLens == [built |-> FALSE, seeds |-> {}, functions |-> <<>>,
           has_runtime |-> FALSE, hit_count |-> 0, call |-> NoCall,
           absent |-> {}, outcome |-> "none"]

\* lens.get("functions", {})
LensFunctions(lens) == IF "functions" \in lens.absent THEN <<>> ELSE lens.functions

\* lens.get("lens", {}).get("seeds", [])
LensSeeds(lens) ==
    IF lens.absent \cap {"lens", "seeds"} # {} THEN {} ELSE lens.seeds

\* lens_from_seeds(seeds, repo_map, hops), the caller keeping the lens in a free slot
LensFromSeeds(slot, seeds, hops) ==
    /\ ~lenses[slot].built
    /\ lenses' = [lenses EXCEPT ![slot] =
                     MkLens(seeds, Neighbors(heap, repo_map.functions, seeds, hops),
                            MkCall("seeds", seeds, hops,
                                   KeepTrace(View(heap, repo_map.functions), seeds, hops)))]
    /\ UNCHANGED <<heap, repo_map>>
    /\ UNCHANGED worldVars
    /\ UNCHANGED scanVars

\* lens_from_issue(issue_md_path, repo_map, hops), text being what the file holds
LensFromIssue(slot, text, hops) ==
    /\ ~lenses[slot].built
    /\ LET found == ExtractCandidates(text)
           recs == View(heap, repo_map.functions)
           seeds == IF found = {} THEN FallbackSeeds(recs, repo_map.order) ELSE found
       IN lenses' = [lenses EXCEPT ![slot] =
                        MkLens(seeds, Neighbors(heap, repo_map.functions, seeds, hops),
                               MkCall("issue", found, hops, KeepTrace(recs, seeds, hops)))]
    /\ UNCHANGED <<heap, repo_map>>
    /\ UNCHANGED worldVars
    /\ UNCHANGED scanVars

\* the caller drops a lens; the records it referred to stay where they are
DropLens(slot) ==
    /\ lenses[slot].built
    /\ lenses' = [lenses EXCEPT ![slot] = NoLens]
    /\ UNCHANGED <<heap, repo_map>>
    /\ UNCHANGED worldVars
    /\ UNCHANGED scanVars

----------------------------------------------------------------------------
(* merge_trace_into_lens                                                   *)

\* a trace event with a "func" key
Ev(func) == [has_func |-> TRUE, func |-> func]

\* line 50: {e.get("func") for e in trace["events"] if "func" in e}
HitSet(events) == {events[n].func : n \in {k \in 1..Len(events) : events[k].has_func}}

IsHitShortOnly(q, hits) == LastSegment(q, ":") \in hits

\* line 54: name in hits or q in hits
IsHit(q, hits) == LastSegment(q, ":") \in hits \/ q \in hits

\* fns[q]["runtime_hit"] = True
SetRuntimeHit(rec) ==
    [rec EXCEPT !.keys = @ \cup {"runtime_hit"}, !.runtime_hit = TRUE]

\* a trace document: {"events": [...]}, or one without the key
MkTrace(events) == [has_events |-> TRUE, events |-> events]
NoEvents == [has_events |-> FALSE, events |-> <<>>]

\* trace.get("events", [])
TraceEvents(trace) == IF trace.has_events THEN trace.events ELSE <<>>

MergeHeapAssigning(h, fns, hits) ==
    LET touched == {fns[q] : q \in {x \in DOMAIN fns : IsHit(x, hits)}}
        seen == {fns[q] : q \in DOMAIN fns}
    IN [r \in DOMAIN h |->
          IF r \in seen
          THEN [h[r] EXCEPT !.keys = @ \cup {"runtime_hit"}, !.runtime_hit = (r \in touched)]
          ELSE h[r]]

\* lines 51-55: the records of the lens functions that are hit get the flag
MergeHeap(h, fns, hits) ==
    LET touched == {fns[q] : q \in {x \in DOMAIN fns : IsHit(x, hits)}}
    IN [r \in DOMAIN h |-> IF r \in touched THEN SetRuntimeHit(h[r]) ELSE h[r]]

MergeLensAccumulating(lens, hits) ==
    [lens EXCEPT !.has_runtime = TRUE, !.hit_count = @ + Cardinality(hits),
                 !.outcome = "returned"]

\* line 56: lens["runtime"] = {"hit_count": len(hits)}; line 57: return lens
MergeLens(lens, hits) ==
    [lens EXCEPT !.has_runtime = TRUE, !.hit_count = Cardinality(hits),
                 !.outcome = "returned"]

\* merge_trace_into_lens(lenses[slot], trace)
MergeDoc(slot, trace) ==
    /\ lenses[slot].built
    /\ LET hits == HitSet(TraceEvents(trace))
       IN /\ heap' = MergeHeap(heap, LensFunctions(lenses[slot]), hits)
          /\ lenses' = [lenses EXCEPT ![slot] = MergeLens(lenses[slot], hits)]
    /\ UNCHANGED repo_map
    /\ UNCHANGED worldVars
    /\ UNCHANGED scanVars

\* merge_trace_into_lens with a trace that has its events
MergeTrace(slot, events) == MergeDoc(slot, MkTrace(events))

----------------------------------------------------------------------------
(* rank_by_error_proximity.  Scores are kept in thousandths.               *)

\* len(set(name) | set(s)) or 1
UnionSize(name, s) ==
    LET u == Cardinality(CharSet(name) \cup CharSet(s)) IN IF u = 0 THEN 1 ELSE u

InterSize(name, s) == Cardinality(CharSet(name) \cap CharSet(s))

\* round to the nearest integer, a tie going to the even one (Python's round)
RoundHalfEven(num, den) ==
    LET fl == num \div den
        twice == 2 * (num - fl * den)
    IN IF twice < den THEN fl
       ELSE IF twice > den THEN fl + 1
       ELSE IF fl % 2 = 0 THEN fl ELSE fl + 1

RECURSIVE UnionProduct(_, _)
\* a common denominator of the overlaps of name with every seed
UnionProduct(name, seeds) ==
    IF seeds = {} THEN 1
    ELSE LET s == CHOOSE x \in seeds : TRUE
         IN UnionSize(name, s) * UnionProduct(name, seeds \ {s})

RECURSIVE OverlapSum(_, _, _)
\* lines 72-75: the sum over the seeds of 0.5 * common, in thousandths times den
OverlapSum(name, seeds, den) ==
    IF seeds = {} THEN 0
    ELSE LET s == CHOOSE x \in seeds : TRUE
         IN 500 * InterSize(name, s) * (den \div UnionSize(name, s))
               + OverlapSum(name, seeds \ {s}, den)

ScoreAccumulating(q, rec, seeds) ==
    LET name == LastSegment(q, ":")
        seedTerm == IF \E s \in seeds : IsSubstr(s, q) THEN 2000 ELSE 0
        hitTerm == IF "runtime_hit" \in rec.keys /\ rec.runtime_hit THEN 1500 ELSE 0
        den == UnionProduct(name, seeds)
    IN rec.error_proximity + seedTerm + hitTerm
          + RoundHalfEven(OverlapSum(name, seeds, den), den)

ScoreFullWeight(q, rec, seeds) ==
    LET name == LastSegment(q, ":")
        seedTerm == IF \E s \in seeds : IsSubstr(s, q) THEN 2000 ELSE 0
        hitTerm == IF "runtime_hit" \in rec.keys /\ rec.runtime_hit THEN 1500 ELSE 0
        den == UnionProduct(name, seeds)
    IN seedTerm + hitTerm + RoundHalfEven(2 * OverlapSum(name, seeds, den), den)

\* lines 65-76: round(score, 3), in thousandths
Score(q, rec, seeds) ==
    LET name == LastSegment(q, ":")
        seedTerm == IF \E s \in seeds : IsSubstr(s, q) THEN 2000 ELSE 0
        hitTerm == IF "runtime_hit" \in rec.keys /\ rec.runtime_hit THEN 1500 ELSE 0
        den == UnionProduct(name, seeds)
    IN seedTerm + hitTerm + RoundHalfEven(OverlapSum(name, seeds, den), den)

SetErrorProximityOnly(rec, score) ==
    [rec EXCEPT !.keys = {"error_proximity"}, !.runtime_hit = FALSE,
                !.error_proximity = score]

\* meta["error_proximity"] = round(score, 3)
SetErrorProximity(rec, score) ==
    [rec EXCEPT !.keys = @ \cup {"error_proximity"}, !.error_proximity = score]

\* lines 64-76: every record of the lens functions gets its score
RankHeap(h, fns, seeds) ==
    LET NameOf(r) == CHOOSE q \in DOMAIN fns : fns[q] = r
    IN [r \in DOMAIN h |->
          IF \E q \in DOMAIN fns : fns[q] = r
          THEN SetErrorProximity(h[r], Score(NameOf(r), h[r], seeds))
          ELSE h[r]]

\* rank_by_error_proximity(lenses[slot])
Rank(slot) ==
    /\ lenses[slot].built
    /\ heap' = RankHeap(heap, LensFunctions(lenses[slot]), LensSeeds(lenses[slot]))
    /\ lenses' = [lenses EXCEPT ![slot].outcome = "returned"]
    /\ UNCHANGED repo_map
    /\ UNCHANGED worldVars
    /\ UNCHANGED scanVars

\* a stage hands the lens document on without one of its keys
LoseKey(slot, key) ==
    /\ lenses[slot].built
    /\ key \notin lenses[slot].absent
    /\ lenses' = [lenses EXCEPT ![slot].absent = @ \cup {key}, ![slot].outcome = "none"]
    /\ UNCHANGED <<heap, repo_map>>
    /\ UNCHANGED worldVars
    /\ UNCHANGED scanVars

----------------------------------------------------------------------------
(* What the callers pass in                                                *)

Q_mf == <<"m", ":", "f">>
Q_mg == <<"m", ":", "g">>
Q_nh == <<"n", ":", "h">>
F_m == <<"m", ".", "p", "y">>
F_n == <<"n", ".", "p", "y">>

FileOfName(q) == IF q = Q_nh THEN F_n ELSE F_m

\* the call lists a function of the small maps can have
CallOptions == {<<>>, <<<<"g">>>>, <<<<"h">>>>, <<<<"x">>>>, <<<<"m">>>>, <<<<"g">>, <<"h">>>>}

RECURSIVE SeqOfSet(_, _)
\* the members of a set of names among those of seq, in the order of seq
SeqOfSet(seq, set) ==
    IF seq = <<>> THEN <<>>
    ELSE IF Head(seq) \in set THEN <<Head(seq)>> \o SeqOfSet(Tail(seq), set)
    ELSE SeqOfSet(Tail(seq), set)

\* every CodeMap over at most the three functions m:f, m:g, n:h
SmallDocs ==
    UNION {{MkDoc(SeqOfSet(<<Q_mf, Q_mg, Q_nh>>, names),
                  [q \in names |-> MkRec(FileOfName(q), calls[q])]) :
               calls \in [names -> CallOptions]} :
           names \in SUBSET {Q_mf, Q_mg, Q_nh}}

\* a CodeMap of twelve functions w:a .. w:l; the n-th has n mod 4 calls
WideNames == <<"a", "b", "c", "d", "e", "f", "g", "h", "i", "j", "k", "l">>
WideOrder == [n \in 1..Len(WideNames) |-> <<"w", ":", WideNames[n]>>]
WideDoc ==
    MkDoc(WideOrder,
          [q \in {WideOrder[n] : n \in 1..Len(WideOrder)} |->
              MkRec(<<"w", ".", "p", "y">>,
                    [k \in 1..(Pos(WideOrder, q) % 4) |-> <<"z">>])])

LensDocs == SmallDocs \cup {WideDoc}

\* seed strings: a function name, another, a path fragment, and a name in
\* capitals, which matches nothing
SeedStrings == {<<"f">>, <<"h">>, <<"m">>, <<"F">>}

\* issue texts:  "",  "x y",  "g(",  "m.py"
IssueTexts == {<<>>, <<"x", " ", "y">>, <<"g", "(">>, <<"m", ".", "p", "y">>}

MaxHops == 2

\* the caller holds at most two lenses at a time
Slots == {1, 2}

InitLensIdle ==
    /\ heap = <<>>
    /\ repo_map = MapOf(MkDoc(<<>>, <<>>))
    /\ lenses = [slot \in Slots |-> NoLens]

InitLens(docs) ==
    /\ \E doc \in docs :
          /\ heap = HeapOf(doc)
          /\ repo_map = MapOf(doc)
    /\ lenses = [slot \in Slots |-> NoLens]

vars == <<fs, store, storeOk, pc, use_cache, procs, files, cache, functions, work,
          results, finished, agg, txn, heap, repo_map, lenses>>

----------------------------------------------------------------------------
(* Spec: the scanner over a tree that changes between scans                *)

Init == InitScan /\ InitLensIdle

ScanStep ==
    \/ \E uc \in BOOLEAN, pr \in 1..2 : ScanStart(uc, pr)
    \/ ParseSequential
    \/ \E k \in 1..Len(WalkOrder) : WorkerParse(k)
    \/ PoolJoin
    \/ Aggregate
    \/ Commit
    \/ Return

Next ==
    \/ ScanStep
    \/ pc = "idle" /\ \E p \in ScanPaths, c \in Sources, m \in 0..MaxMtime : WriteFile(p, c, m)
    \/ pc = "idle" /\ \E p \in ScanPaths : DeleteFile(p)

Spec == Init /\ [][Next]_vars

----------------------------------------------------------------------------
(* SpecFaults: the scanner over unreadable files and a damaged cache       *)

NextFaults ==
    \/ ScanStep
    \/ pc = "idle" /\ \E p \in ScanPaths, c \in Sources : WriteFile(p, c, 0)
    \/ pc = "idle" /\ \E p \in ScanPaths : DeleteFile(p)
    \/ pc = "idle" /\ \E p \in ScanPaths : MakeUnreadable(p)
    \/ pc = "idle" /\ CorruptStore
    \/ pc = "idle" /\ \E p \in ScanPaths : CorruptRow(p)

SpecFaults == Init /\ [][NextFaults]_vars

----------------------------------------------------------------------------
(* Claims about the scanner                                                *)

RECURSIVE FreshFunctions(_, _, _)
\* the functions map of a scan that uses no cache: every candidate parsed, in walk order
FreshFunctions(fsys, todo, funcs) ==
    IF todo = <<>> THEN funcs
    ELSE FreshFunctions(fsys, Tail(todo),
                        MergeResult(funcs, Head(todo), ParseFile(fsys, Head(todo))))

FreshMap == FreshFunctions(fs, Walk(fs), <<>>)

WorkSet == {work[k] : k \in 1..Len(work)}
FileSet == {files[k] : k \in 1..Len(files)}

\* C1: every scan, with or without the cache, returns the CodeMap that parsing
\* every candidate file of the tree afresh gives at that moment.
C1_CachedScanEqualsFreshScan ==
    pc = "done" => functions = FreshMap

\* C1 witness: a cache-enabled scan has ended that served one file from its entry
\* and re-parsed another whose entry was stale, and the map is not empty.
C1_Witness ==
    /\ pc = "done"
    /\ use_cache
    /\ \E f \in FileSet \ WorkSet : ParseFile(fs, f) # <<>>
    /\ \E g \in WorkSet : g \in DOMAIN cache /\ ParseFile(fs, g) # JsonLoads(cache[g].data)

\* the row a scan has to leave for a file it parsed
RowFor(f) ==
    [mtime |-> fs[f].mtime \div TicksPerSecond, size |-> fs[f].content.size,
     sha |-> fs[f].content.sha, data |-> JsonDumps(ParseFile(fs, f))]

\* C2: in a cache-enabled scan a candidate is left out of the work list iff the
\* loaded cache has an entry for it whose mtime, size and sha all equal the file's;
\* every file of the work list is parsed and, at the end, its entry is the file's
\* signature and result.
C2_ServedIffSignatureMatches ==
    (use_cache /\ pc \in {"parse", "aggregate", "commit", "done"}) =>
        /\ \A f \in FileSet :
              f \notin WorkSet <=>
                 /\ f \in DOMAIN cache
                 /\ cache[f].mtime = fs[f].mtime \div TicksPerSecond
                 /\ cache[f].size = fs[f].content.size
                 /\ cache[f].sha = fs[f].content.sha
        /\ pc \in {"aggregate", "commit", "done"} =>
              \A k \in 1..Len(work) : results[k] = ParseFile(fs, work[k])
        /\ pc = "done" => \A f \in WorkSet : f \in DOMAIN store /\ store[f] = RowFor(f)

\* C2 witness: a cache-enabled scan has ended in which one file was re-parsed only
\* because its mtime differed (size and sha matched) and another was served.
C2_Witness ==
    /\ pc = "done"
    /\ use_cache
    /\ FileSet \ WorkSet # {}
    /\ \E f \in WorkSet :
          /\ f \in DOMAIN cache
          /\ cache[f].size = fs[f].content.size
          /\ cache[f].sha = fs[f].content.sha
          /\ cache[f].mtime # fs[f].mtime \div TicksPerSecond

\* line 114: [_parse_file(fp) for fp in work]
SequentialResults == [k \in 1..Len(work) |-> ParseFile(fs, work[k])]

RECURSIVE SequentialAggregate(_, _)
\* lines 116-126 applied to zip(work, SequentialResults) from pair k on
SequentialAggregate(k, st) ==
    IF k > Len(work) THEN st
    ELSE SequentialAggregate(k + 1,
            [functions |-> MergeResult(st.functions, work[k], SequentialResults[k]),
             rows |-> IF use_cache
                      THEN ReplaceRow(st.rows, work[k], FileSignature(fs, work[k]),
                                      SequentialResults[k])
                      ELSE st.rows])

\* what the scan under way gives when its work list is parsed in the calling process
SequentialOutcome ==
    SequentialAggregate(1,
        [functions |-> Partition(fs, use_cache, cache, files,
                                 [ok |-> TRUE, functions |-> <<>>, work |-> <<>>]).functions,
         rows |-> <<>>])

\* C6: whatever the worker count and the order in which the parse tasks return, the
\* functions map and the cache rows written are those of sequential parsing.
C6_ParallelEqualsSequential ==
    pc = "commit" =>
        /\ results = SequentialResults
        /\ functions = SequentialOutcome.functions
        /\ txn = SequentialOutcome.rows

\* C6 witness: a pool scan is about to commit whose second task returned before its
\* first, the two files having different results.
C6_Witness ==
    /\ pc = "commit"
    /\ procs > 1
    /\ use_cache
    /\ finished = <<2, 1>>
    /\ results[1] # results[2]

\* the cache file opens and every row decodes
StoreHealthy == storeOk /\ \A p \in DOMAIN store : store[p].data.valid

\* C4: with a healthy cache, no scan raises, whatever files are malformed or
\* unreadable, and the map holds exactly the functions of the files that parse.
C4_ScanSurvivesBadFiles ==
    StoreHealthy => (pc # "raised" /\ (pc = "done" => functions = FreshMap))

\* C5: with every file readable and the cache unavailable or corrupt, a
\* cache-enabled scan ends without raising, has parsed every candidate and returns
\* the map of a cache-disabled scan.
C5_DamagedCacheIsAllMisses ==
    (use_cache /\ ~StoreHealthy /\ (\A p \in ScanPaths : fs[p].exists => fs[p].readable)
       /\ pc \in {"done", "raised"}) =>
        (pc = "done" /\ work = files /\ functions = FreshMap)

----------------------------------------------------------------------------
(* SpecLens: lenses built over every small CodeMap                         *)

InitLensSpec == InitScan /\ InitLens(LensDocs)

NextLens ==
    \/ \E seeds \in SUBSET SeedStrings, hops \in 0..MaxHops : LensFromSeeds(1, seeds, hops)
    \/ \E text \in IssueTexts, hops \in 0..MaxHops : LensFromIssue(1, text, hops)
    \/ DropLens(1)

SpecLens == InitLensSpec /\ [][NextLens]_vars

\* the CodeMap as its holder sees it
CodeMapView == View(heap, repo_map.functions)

\* C7: the keep set never shrinks from one turn of the loop to the next, the loop
\* makes exactly hops turns, and the lens of h hops is within the lens of h+1 hops.
C7_HopMonotone ==
    \A slot \in Slots : lenses[slot].built =>
        LET call == lenses[slot].call
        IN /\ Len(call.keeps) = call.hops + 1
           /\ \A i \in 1..(Len(call.keeps) - 1) : call.keeps[i] \subseteq call.keeps[i + 1]
           /\ DOMAIN lenses[slot].functions = call.keeps[Len(call.keeps)]
           /\ DOMAIN lenses[slot].functions \subseteq
                 Kept(CodeMapView, lenses[slot].seeds, call.hops + 1)

\* C7 witness: a lens of two hops or more that grew in its first turn and again in
\* its second.
C7_Witness ==
    \E slot \in Slots :
        /\ lenses[slot].built
        /\ lenses[slot].call.hops >= 2
        /\ lenses[slot].call.keeps[1] # {}
        /\ lenses[slot].call.keeps[1] # lenses[slot].call.keeps[2]
        /\ lenses[slot].call.keeps[2] # lenses[slot].call.keeps[3]

\* C8: a lens built from no seeds over a non-empty CodeMap, by lens_from_seeds or by
\* lens_from_issue, has min(10, number of functions) seeds.
C8_SeedFallback ==
    \A slot \in Slots :
        (lenses[slot].built /\ lenses[slot].call.given = {} /\ DOMAIN repo_map.functions # {}) =>
            Cardinality(lenses[slot].seeds) =
                IF Cardinality(DOMAIN repo_map.functions) < 10
                THEN Cardinality(DOMAIN repo_map.functions) ELSE 10

\* C9: in each turn of the loop, a function not yet kept whose calls list shares a
\* callee name with the calls list of a kept function is added.
C9_UpstreamPeers ==
    \A slot \in Slots : lenses[slot].built =>
        LET keeps == lenses[slot].call.keeps
        IN \A i \in 1..(Len(keeps) - 1) :
              \A q \in DOMAIN CodeMapView \ keeps[i] :
                 (\E k \in keeps[i] : CallsOf(CodeMapView, q) \cap CallsOf(CodeMapView, k) # {})
                    => q \in keeps[i + 1]

\* C10: after each turn of the loop the keep set holds every qualified name q2 for
\* which a function kept before the turn has a callee c with q2 ending in ":" + c
\* or c a substring of q2.
C10_DownstreamExpansion ==
    \A slot \in Slots : lenses[slot].built =>
        LET keeps == lenses[slot].call.keeps
        IN \A i \in 1..(Len(keeps) - 1) :
              \A q2 \in DOMAIN CodeMapView :
                 (\E q \in keeps[i] : \E n \in 1..Len(CodeMapView[q].calls) :
                     LET c == CodeMapView[q].calls[n]
                     IN \/ SubSeq(q2, Len(q2) - Len(c), Len(q2)) = <<":">> \o c
                        \/ \E j \in 1..(Len(q2) - Len(c) + 1) :
                              \A d \in 1..Len(c) : q2[j + d - 1] = c[d])
                    => q2 \in keeps[i + 1]

\* C10 witness: a turn of the loop added a name that a callee of a kept function
\* matches as a substring and not as a suffix.
C10_Witness ==
    \E slot \in Slots :
        /\ lenses[slot].built
        /\ Len(lenses[slot].call.keeps) >= 2
        /\ \E q2 \in lenses[slot].call.keeps[2] \ lenses[slot].call.keeps[1] :
              \E q \in lenses[slot].call.keeps[1] : \E c \in CallsOf(CodeMapView, q) :
                 IsSubstr(c, q2) /\ ~EndsWith(q2, <<":">> \o c)

----------------------------------------------------------------------------
(* SpecPipe: two lenses over one CodeMap, merged with traces and ranked    *)

\* m:f calls g, m:g calls h or nothing, n:h calls nothing
PipeDocs ==
    {doc \in SmallDocs :
        /\ Len(doc.order) = 3
        /\ doc.recs[Q_mf].calls = <<<<"g">>>>
        /\ doc.recs[Q_mg].calls \in {<<>>, <<<<"h">>>>}
        /\ doc.recs[Q_nh].calls = <<>>}

PipeSeedSets == {{}, {<<"f">>}}

\* traces: no event; calls of g and of n:h, and an event with no func
Traces ==
    {<<>>, <<Ev(<<"g">>), Ev(Q_nh), [has_func |-> FALSE, func |-> <<>>]>>}

InitPipe == InitScan /\ InitLens(PipeDocs)

NextPipe ==
    \/ \E slot \in Slots, seeds \in PipeSeedSets, hops \in 0..1 : LensFromSeeds(slot, seeds, hops)
    \/ \E slot \in Slots : LensFromIssue(slot, <<"h", "(">>, 0)
    \/ \E slot \in Slots, events \in Traces : MergeTrace(slot, events)
    \/ \E slot \in Slots : Rank(slot)
    \/ \E slot \in Slots : DropLens(slot)

SpecPipe == InitPipe /\ [][NextPipe]_vars

\* C3: no step of lens building, trace merging or ranking changes what the CodeMap
\* holds: every record keeps its file and calls and gains no key.
C3_CodeMapNeverMutated ==
    [][CodeMapView' = CodeMapView]_vars

----------------------------------------------------------------------------
(* Hop-limited expansion                                                   *)

\* the orders in which the items of a dict of these names can come: every one
\* when there are at most three names, else the given order and its reverse
IterationOrders(order) ==
    LET n == Len(order)
    IN IF n <= 3
       THEN {[k \in 1..n |-> order[perm[k]]] :
                perm \in {f \in [1..n -> 1..n] : \A a, b \in 1..n : a # b => f[a] # f[b]}}
       ELSE {order, [k \in 1..n |-> order[n + 1 - k]]}

\* C11: keep before the loop is exactly the names with a seed as substring, which
\* is the whole lens when hops = 0; every name a turn adds is matched by a callee
\* of a function kept when the turn began; and each turn gives the same set
\* whatever the order of the functions map.
C11_HopLimited ==
    \A slot \in Slots : lenses[slot].built =>
        LET keeps == lenses[slot].call.keeps
            recs == CodeMapView
        IN /\ keeps[1] = {q \in DOMAIN recs :
                             \E tok \in lenses[slot].seeds :
                                \E j \in 1..(Len(q) - Len(tok) + 1) :
                                   \A d \in 1..Len(tok) : q[j + d - 1] = tok[d]}
           /\ lenses[slot].call.hops = 0 => DOMAIN lenses[slot].functions = keeps[1]
           /\ \A i \in 1..(Len(keeps) - 1) :
                 /\ \A q \in keeps[i + 1] \ keeps[i] :
                       \E k \in keeps[i] : \E c \in CallsOf(recs, k) :
                           IsSubstr(c, q) \/ EndsWith(q, <<":">> \o c)
                 /\ \A order \in IterationOrders(repo_map.order) :
                       HopWalk(recs, order, keeps[i], keeps[i]) = keeps[i + 1]

\* C11 witness: a lens of one hop that grew in its turn and leaves out a function
\* which only a callee of a function added in that turn matches.
C11_Witness ==
    \E slot \in Slots :
        /\ lenses[slot].built
        /\ lenses[slot].call.hops = 1
        /\ LET keeps == lenses[slot].call.keeps
               recs == CodeMapView
           IN /\ keeps[2] # keeps[1]
              /\ \E q \in DOMAIN recs \ keeps[2] :
                    /\ \E k \in keeps[2] \ keeps[1] : \E c \in CallsOf(recs, k) : IsSubstr(c, q)
                    /\ DOMAIN lenses[slot].functions = keeps[2]

----------------------------------------------------------------------------
(* The lens as a sub-map                                                   *)

\* C12: every key of the lens functions is a key of the CodeMap and shows that
\* function's file and calls; when no name has a seed as substring, or the CodeMap
\* has no function, the lens has no function.
C12_InducedSubMap ==
    \A slot \in Slots : lenses[slot].built =>
        LET fns == lenses[slot].functions
            shown == View(heap, fns)
        IN /\ DOMAIN fns \subseteq DOMAIN repo_map.functions
           /\ \A q \in DOMAIN fns :
                 /\ shown[q].file = CodeMapView[q].file
                 /\ shown[q].calls = CodeMapView[q].calls
           /\ (\A q \in DOMAIN repo_map.functions :
                   \A tok \in lenses[slot].seeds : ~IsSubstr(tok, q))
                 => DOMAIN fns = {}

\* C12 witness: a lens that holds some and not all functions of a CodeMap whose
\* records differ from one another.
C12_Witness ==
    \E slot \in Slots :
        /\ lenses[slot].built
        /\ DOMAIN lenses[slot].functions # {}
        /\ DOMAIN lenses[slot].functions # DOMAIN repo_map.functions
        /\ \E q1 \in DOMAIN lenses[slot].functions : \E q2 \in DOMAIN repo_map.functions :
              CodeMapView[q1].calls # CodeMapView[q2].calls

----------------------------------------------------------------------------
(* SpecRank: one lens, merged with traces and ranked, its document at      *)
(* times handed on without a key                                           *)

\* m:f calls g, m:g calls h or nothing, n:h calls m or nothing
RankDocs ==
    {doc \in SmallDocs :
        /\ Len(doc.order) = 3
        /\ doc.recs[Q_mf].calls = <<<<"g">>>>
        /\ doc.recs[Q_mg].calls \in {<<>>, <<<<"h">>>>}
        /\ doc.recs[Q_nh].calls \in {<<>>, <<<<"m">>>>}}

\* seeds written with the letter f alone, which no qualified name contains
S_ff == <<"f", "f">>
S_fff == <<"f", "f", "f">>
S_ffff == <<"f", "f", "f", "f">>
S_fffff == <<"f", "f", "f", "f", "f">>

RankSeedSets ==
    {{}, {<<"f">>}, {<<"h">>}, {<<"h">>, S_ff, S_fff}, {<<"h">>, S_ff, S_fff, S_ffff, S_fffff}}

\* traces: no event; calls of g and of n:h and an event with no func; two calls
\* of f; a document with no events key
RankTraces ==
    {MkTrace(<<>>),
     MkTrace(<<Ev(<<"g">>), Ev(Q_nh), [has_func |-> FALSE, func |-> <<>>]>>),
     MkTrace(<<Ev(<<"f">>), Ev(<<"f">>)>>),
     NoEvents}

LensKeys == {"functions", "lens", "seeds"}

InitRank == InitScan /\ InitLens(RankDocs)

NextRank ==
    \/ \E seeds \in RankSeedSets, hops \in 0..1 : LensFromSeeds(1, seeds, hops)
    \/ LensFromIssue(1, <<>>, 0)
    \/ \E trace \in RankTraces : MergeDoc(1, trace)
    \/ Rank(1)
    \/ \E key \in LensKeys : LoseKey(1, key)

SpecRank == InitRank /\ [][NextRank]_vars

\* the func values of the events of a trace
FuncValues(trace) ==
    {TraceEvents(trace)[n].func :
        n \in {k \in 1..Len(TraceEvents(trace)) : TraceEvents(trace)[k].has_func}}

\* the record a lens function refers to has a true runtime_hit
Flagged(h, r) == "runtime_hit" \in h[r].keys /\ h[r].runtime_hit

\* C13: a merge into a lens none of whose functions has a runtime_hit flags
\* exactly the functions whose last segment or whole qualified name is the func
\* of an event, leaves the others without the key, and sets hit_count to the
\* number of distinct func values.
C13_MergePostcondition ==
    [][\A slot \in Slots : \A trace \in RankTraces :
          LET fns == LensFunctions(lenses[slot])
          IN (/\ MergeDoc(slot, trace)
              /\ \A q \in DOMAIN fns : "runtime_hit" \notin heap[fns[q]].keys)
             => /\ \A q \in DOMAIN fns :
                      IF \E v \in FuncValues(trace) :
                            v = q \/ v = SubSeq(q, RFind(q, ":") + 1, Len(q))
                      THEN Flagged(heap', fns[q])
                      ELSE "runtime_hit" \notin heap'[fns[q]].keys
                /\ lenses'[slot].has_runtime
                /\ lenses'[slot].hit_count = Cardinality(FuncValues(trace))]_vars

\* C13 witness: a merged lens with hit_count 2 in which one function is flagged
\* through its qualified name or its last segment and another is not flagged.
C13_Witness ==
    \E slot \in Slots :
        /\ lenses[slot].built
        /\ lenses[slot].outcome = "returned"
        /\ lenses[slot].has_runtime
        /\ lenses[slot].hit_count = 2
        /\ \E q1, q2 \in DOMAIN LensFunctions(lenses[slot]) :
              /\ Flagged(heap, lenses[slot].functions[q1])
              /\ "runtime_hit" \notin heap[lenses[slot].functions[q2]].keys

\* C14: merging a trace into a lens that was just merged with that trace changes
\* neither a record nor the lens.
C14_MergeIdempotent ==
    [][\A slot \in Slots : \A trace \in RankTraces :
          MergeDoc(slot, trace) =>
             LET hits == HitSet(TraceEvents(trace))
             IN /\ MergeHeap(heap', LensFunctions(lenses'[slot]), hits) = heap'
                /\ MergeLens(lenses'[slot], hits) = lenses'[slot]]_vars

\* C14 witness: a lens merged with the trace of two calls of f, m:f being flagged,
\* on which the same merge would change nothing.
C14_Witness ==
    \E slot \in Slots :
        /\ lenses[slot].built
        /\ lenses[slot].has_runtime
        /\ lenses[slot].hit_count = 1
        /\ Q_mf \in DOMAIN LensFunctions(lenses[slot])
        /\ Flagged(heap, lenses[slot].functions[Q_mf])
        /\ MergeHeap(heap, LensFunctions(lenses[slot]), {<<"f">>}) = heap

\* C15: a record whose runtime_hit is true keeps it true through every step.
C15_RuntimeHitMonotone ==
    [][\A r \in DOMAIN heap : Flagged(heap, r) => Flagged(heap', r)]_vars

\* C15 witness: a lens last merged with a trace that has no func value, one of
\* whose functions is still flagged from an earlier merge.
C15_Witness ==
    \E slot \in Slots :
        /\ lenses[slot].built
        /\ lenses[slot].has_runtime
        /\ lenses[slot].hit_count = 0
        /\ \E q \in DOMAIN LensFunctions(lenses[slot]) :
              Flagged(heap, lenses[slot].functions[q])

\* a record as it was before any ranking wrote to it
Unranked(rec) == [rec EXCEPT !.keys = @ \ {"error_proximity"}, !.error_proximity = 0]

\* C16: ranking a lens that was just ranked changes no record, and the value a
\* ranking writes is the one it would write had no error_proximity been stored.
C16_RankIdempotent ==
    [][\A slot \in Slots :
          Rank(slot) =>
             LET fns == LensFunctions(lenses[slot])
                 seeds == LensSeeds(lenses[slot])
             IN /\ RankHeap(heap', LensFunctions(lenses'[slot]), LensSeeds(lenses'[slot])) = heap'
                /\ \A q \in DOMAIN fns :
                      heap'[fns[q]].error_proximity =
                         Score(q, Unranked(heap[fns[q]]), seeds)]_vars

\* C16 witness: a ranked lens whose functions carry different scores, one of them
\* above zero, all of which a second ranking would write again.
C16_Witness ==
    \E slot \in Slots :
        /\ lenses[slot].built
        /\ lenses[slot].outcome = "returned"
        /\ LET fns == LensFunctions(lenses[slot])
           IN /\ \A q \in DOMAIN fns : "error_proximity" \in heap[fns[q]].keys
              /\ \E q1, q2 \in DOMAIN fns :
                    /\ heap[fns[q1]].error_proximity > 0
                    /\ heap[fns[q1]].error_proximity # heap[fns[q2]].error_proximity
              /\ RankHeap(heap, fns, LensSeeds(lenses[slot])) = heap

----------------------------------------------------------------------------
(* The score                                                               *)

RECURSIVE ShortUnionProduct(_, _)
\* a common denominator of the overlaps of name with the last segment of every seed
ShortUnionProduct(name, seeds) ==
    IF seeds = {} THEN 1
    ELSE LET s == CHOOSE x \in seeds : TRUE
         IN UnionSize(name, LastSegment(s, ":")) * ShortUnionProduct(name, seeds \ {s})

RECURSIVE ShortOverlapSum(_, _, _)
\* the sum over the seeds of 0.5 * jaccard(chars of name, chars of the last
\* segment of the seed), in thousandths times den
ShortOverlapSum(name, seeds, den) ==
    IF seeds = {} THEN 0
    ELSE LET s == CHOOSE x \in seeds : TRUE
             short == LastSegment(s, ":")
         IN 500 * InterSize(name, short) * (den \div UnionSize(name, short))
               + ShortOverlapSum(name, seeds \ {s}, den)

\* C17: the score a ranking writes is 2.0 for a seed match, 1.5 for a runtime hit
\* and, for each seed, 0.5 times the Jaccard index of the characters of the
\* function's short name and of the last ":" segment of the seed.
C17_SimilarityOfShortSeed ==
    [][\A slot \in Slots :
          Rank(slot) =>
             LET fns == LensFunctions(lenses[slot])
                 seeds == LensSeeds(lenses[slot])
             IN \A q \in DOMAIN fns :
                   LET name == LastSegment(q, ":")
                       den == ShortUnionProduct(name, seeds)
                   IN heap'[fns[q]].error_proximity =
                         (IF \E s \in seeds : IsSubstr(s, q) THEN 2000 ELSE 0)
                         + (IF Flagged(heap, fns[q]) THEN 1500 ELSE 0)
                         + RoundHalfEven(ShortOverlapSum(name, seeds, den), den)]_vars

\* a function of the lens that no seed matches and that has no runtime hit
Unmatched(slot, q) ==
    /\ \A s \in LensSeeds(lenses[slot]) : ~IsSubstr(s, q)
    /\ ~Flagged(heap, lenses[slot].functions[q])

\* C18 as stated: a ranking gives a function that no seed matches and that has
\* no runtime hit a score below 2.0, whatever the seeds.
C18_UnmatchedBelowTwo ==
    [][\A slot \in Slots :
          Rank(slot) =>
             \A q \in DOMAIN LensFunctions(lenses[slot]) :
                Unmatched(slot, q) =>
                   heap'[lenses[slot].functions[q]].error_proximity < 2000]_vars

\* C18 amended: when the lens has at most three distinct seeds, a ranking gives a
\* function that no seed matches and that has no runtime hit a score below 2.0.
C18_UnmatchedBelowTwoFewSeeds ==
    [][\A slot \in Slots :
          (Rank(slot) /\ Cardinality(LensSeeds(lenses[slot])) <= 3) =>
             \A q \in DOMAIN LensFunctions(lenses[slot]) :
                Unmatched(slot, q) =>
                   heap'[lenses[slot].functions[q]].error_proximity < 2000]_vars

\* C18 witness: a ranked lens of three seeds in which m:f, matched by no seed and
\* not hit, has the score 1.0 while a seed-matched function has 2.0 or more.
C18_Witness ==
    \E slot \in Slots :
        /\ lenses[slot].built
        /\ lenses[slot].outcome = "returned"
        /\ Cardinality(LensSeeds(lenses[slot])) = 3
        /\ Q_mf \in DOMAIN LensFunctions(lenses[slot])
        /\ Unmatched(slot, Q_mf)
        /\ "error_proximity" \in heap[lenses[slot].functions[Q_mf]].keys
        /\ heap[lenses[slot].functions[Q_mf]].error_proximity = 1000
        /\ \E q \in DOMAIN LensFunctions(lenses[slot]) :
              heap[lenses[slot].functions[q]].error_proximity >= 2000

\* C19: a ranking leaves every function of the lens with an error_proximity and
\* with the file, calls and runtime_hit it had, and leaves the keys of the
\* lens functions, the seeds, the runtime entry and every other record as they were.
C19_RankFrame ==
    [][\A slot \in Slots :
          Rank(slot) =>
             LET fns == LensFunctions(lenses[slot])
                 refs == {fns[q] : q \in DOMAIN fns}
             IN /\ lenses'[slot].functions = lenses[slot].functions
                /\ lenses'[slot].seeds = lenses[slot].seeds
                /\ lenses'[slot].absent = lenses[slot].absent
                /\ lenses'[slot].has_runtime = lenses[slot].has_runtime
                /\ lenses'[slot].hit_count = lenses[slot].hit_count
                /\ \A r \in refs :
                      /\ "error_proximity" \in heap'[r].keys
                      /\ heap'[r].keys \ {"error_proximity"} = heap[r].keys \ {"error_proximity"}
                      /\ heap'[r].file = heap[r].file
                      /\ heap'[r].calls = heap[r].calls
                      /\ heap'[r].runtime_hit = heap[r].runtime_hit
                /\ \A r \in DOMAIN heap \ refs : heap'[r] = heap[r]]_vars

\* C19 witness: a ranked lens with a runtime entry of two hits, one function of
\* which is flagged and scored and another of which was left out of the lens.
C19_Witness ==
    \E slot \in Slots :
        /\ lenses[slot].built
        /\ lenses[slot].outcome = "returned"
        /\ lenses[slot].absent = {}
        /\ lenses[slot].has_runtime
        /\ lenses[slot].hit_count = 2
        /\ DOMAIN lenses[slot].functions # DOMAIN repo_map.functions
        /\ \A q \in DOMAIN lenses[slot].functions :
              "error_proximity" \in heap[lenses[slot].functions[q]].keys
        /\ \E q \in DOMAIN lenses[slot].functions :
              /\ Flagged(heap, lenses[slot].functions[q])
              /\ heap[lenses[slot].functions[q]].error_proximity >= 1500

----------------------------------------------------------------------------
(* Documents with a key missing                                            *)

\* C20: a merge into a lens without "functions" or with a trace without
\* "events", and a ranking of a lens without "functions" or without its seeds,
\* raise and leave the lens and its records as they were.
C20_MissingKeyFailsFast ==
    [][\A slot \in Slots :
          (\/ \E trace \in RankTraces :
                 /\ MergeDoc(slot, trace)
                 /\ ~trace.has_events \/ "functions" \in lenses[slot].absent
           \/ /\ Rank(slot)
              /\ lenses[slot].absent # {})
          => /\ lenses'[slot].outcome = "raised"
             /\ heap' = heap
             /\ [lenses'[slot] EXCEPT !.outcome = "none"]
                   = [lenses[slot] EXCEPT !.outcome = "none"]]_vars

----------------------------------------------------------------------------
(* Two lenses over one CodeMap                                             *)

\* C21: a merge into or a ranking of one lens changes no record that the other
\* lens shows, and a lens that has just been built shows records without
\* runtime_hit and without error_proximity.
C21_LensesIndependent ==
    [][\A a \in Slots : \A b \in Slots \ {a} :
          /\ ((\E events \in Traces : MergeTrace(a, events)) \/ Rank(a))
                => View(heap', lenses[b].functions) = View(heap, lenses[b].functions)
          /\ (~lenses[a].built /\ lenses'[a].built)
                => \A q \in DOMAIN lenses'[a].functions :
                      heap'[lenses'[a].functions[q]].keys = {}]_vars

----------------------------------------------------------------------------
(* The join before aggregation                                             *)

\* every dispatched parse task has returned
AllReturned == {finished[n] : n \in 1..Len(finished)} = 1..Len(work)

\* C22: while a scan runs, a step that changes the functions map or writes a
\* cache row is taken only when every parse task has returned, it is a step of
\* the aggregation loop of the caller, and the store changes only at the commit,
\* after every row of the scan has been written.
C22_JoinBeforeAggregation ==
    [][/\ (pc \in {"parse", "aggregate", "commit"} /\ functions' # functions)
            => (AllReturned /\ pc = "aggregate" /\ agg' = agg + 1)
       /\ (pc \in {"parse", "aggregate", "commit"} /\ txn' # txn /\ txn' # <<>>)
            => (AllReturned /\ pc = "aggregate" /\ agg' = agg + 1)
       /\ store' # store
            => (pc = "commit" /\ agg = Len(work) /\ AllReturned
                /\ DOMAIN txn = {work[k] : k \in 1..Len(work)})]_vars

\* C22 witness: a cache-enabled scan with two workers, both tasks returned, the
\* second first, has merged and written the first file and not yet the second.
C22_Witness ==
    /\ pc = "aggregate"
    /\ use_cache
    /\ procs > 1
    /\ finished = <<2, 1>>
    /\ agg = 1
    /\ DOMAIN txn = {work[1]}
    /\ work[1] \notin DOMAIN store
    /\ functions # <<>>

----------------------------------------------------------------------------
(* SpecParse: scans of files with nested and repeated definitions          *)

N_k == <<"k">>

\* def f():
\*     def g(): k()
\*     h()
SrcNested == [sha |-> "sha-nested", size |-> 40, parses |-> TRUE,
              tree |-> <<Def(N_f, <<Def(N_g, <<Call(N_k, <<>>)>>), Call(N_h, <<>>)>>)>>]
\* def f(): g()
\* def f(): h()
SrcTwice == [sha |-> "sha-twice", size |-> 28, parses |-> TRUE,
             tree |-> <<Def(N_f, <<Call(N_g, <<>>)>>), Def(N_f, <<Call(N_h, <<>>)>>)>>]
\* class A:
\*     def f(self): self.g()
\* class B:
\*     def f(self):
\*         def f(): h()
\*         k()
SrcMethods == [sha |-> "sha-methods", size |-> 96, parses |-> TRUE,
               tree |-> <<Other(<<Def(N_f, <<Call(N_g, <<Other(<<>>)>>)>>)>>),
                          Other(<<Def(N_f, <<Def(N_f, <<Call(N_h, <<>>)>>),
                                             Call(N_k, <<>>)>>)>>)>>]

ParseSources == {SrcFG, SrcNested, SrcTwice, SrcMethods, SrcBad}

NextParse ==
    \/ ScanStep
    \/ pc = "idle" /\ \E p \in ScanPaths, c \in ParseSources : WriteFile(p, c, 0)
    \/ pc = "idle" /\ \E p \in ScanPaths : DeleteFile(p)

SpecParse == Init /\ [][NextParse]_vars

RECURSIVE DefsPreorder(_)
\* the function definitions under these nodes, in the order of the text
DefsPreorder(kids) ==
    IF kids = <<>> THEN <<>>
    ELSE LET node == Head(kids)
         IN (IF node.kind = "def" THEN <<node>> ELSE <<>>)
               \o DefsPreorder(node.kids) \o DefsPreorder(Tail(kids))

RECURSIVE OwnCalls(_)
\* the callee names of the calls under these nodes that are in no nested
\* definition, in the order of the text
OwnCalls(kids) ==
    IF kids = <<>> THEN <<>>
    ELSE LET node == Head(kids)
         IN (CASE node.kind = "def" -> <<>>
               [] node.kind = "call" ->
                     (IF node.name # <<>> THEN <<node.name>> ELSE <<>>) \o OwnCalls(node.kids)
               [] OTHER -> OwnCalls(node.kids))
               \o OwnCalls(Tail(kids))

RECURSIVE IsSubsequence(_, _)
\* the members of a occur in b, in the order of a
IsSubsequence(a, b) ==
    IF a = <<>> THEN TRUE
    ELSE IF b = <<>> THEN FALSE
    ELSE IF Head(a) = Head(b) THEN IsSubsequence(Tail(a), Tail(b))
    ELSE IsSubsequence(a, Tail(b))

\* the definitions of a candidate file that parses, in the order of the text
DefsOf(file_path) ==
    IF fs[file_path].content.parses THEN DefsPreorder(fs[file_path].content.tree) ELSE <<>>

\* C23: in the map a scan returns, every function defined once in its file has a
\* record whose calls contain, in order, the callee name of every call of its
\* body, those that come after a nested definition included.
C23_ParseCompleteness ==
    pc = "done" =>
        \A n \in 1..Len(files) :
            LET defs == DefsOf(files[n])
            IN \A i \in 1..Len(defs) :
                  (\A j \in 1..Len(defs) : defs[j].name = defs[i].name => j = i)
                     => /\ Qn(files[n], defs[i].name) \in DOMAIN functions
                        /\ IsSubsequence(OwnCalls(defs[i].kids),
                                         functions[Qn(files[n], defs[i].name)].calls)

\* C30: when a file defines a name more than once, the map has one record for
\* it, and its calls are calls of the definition that comes last, none of them
\* a call of an earlier definition only.
C30_LastDefinitionWins ==
    pc = "done" =>
        \A n \in 1..Len(files) :
            LET defs == DefsOf(files[n])
            IN \A i \in 1..Len(defs) :
                  (/\ \E j \in 1..(i - 1) : defs[j].name = defs[i].name
                   /\ \A j \in (i + 1)..Len(defs) : defs[j].name # defs[i].name)
                     => LET q == Qn(files[n], defs[i].name)
                        IN /\ q \in DOMAIN functions
                           /\ IsSubsequence(functions[q].calls, OwnCalls(defs[i].kids))
                           /\ \A j \in 1..(i - 1) :
                                 defs[j].name = defs[i].name =>
                                    \A c \in 1..Len(functions[q].calls) :
                                       (\E d \in 1..Len(OwnCalls(defs[j].kids)) :
                                            OwnCalls(defs[j].kids)[d] = functions[q].calls[c])
                                          => \E d \in 1..Len(OwnCalls(defs[i].kids)) :
                                                OwnCalls(defs[i].kids)[d] = functions[q].calls[c]

\* C30 witness: a finished scan of a file that defines f twice, with g called in
\* the first definition and h in the second, holds r/a:f with the calls [h].
C30_Witness ==
    /\ pc = "done"
    /\ Len(files) >= 1
    /\ files[1] = P_a
    /\ fs[P_a].content = SrcTwice
    /\ Qn(P_a, N_f) \in DOMAIN functions
    /\ functions[Qn(P_a, N_f)].calls = <<N_h>>

----------------------------------------------------------------------------
(* The seeds lens_from_issue falls back to                                 *)

\* C24: when the issue text yields no candidate, the seeds are at most ten
\* qualified names of the CodeMap, no function left out has more calls than one
\* that was taken, and every seed is a function of the lens.
C24_FallbackByCallCount ==
    \A slot \in Slots :
        (lenses[slot].built /\ lenses[slot].call.entry = "issue" /\ lenses[slot].call.given = {}) =>
            LET seeds == lenses[slot].seeds
                recs == CodeMapView
            IN /\ seeds \subseteq DOMAIN recs
               /\ Cardinality(seeds) <= 10
               /\ Cardinality(seeds) = 10 \/ seeds = DOMAIN recs
               /\ \A q \in seeds : \A q2 \in DOMAIN recs \ seeds :
                     Len(recs[q2].calls) <= Len(recs[q].calls)
               /\ seeds \subseteq DOMAIN lenses[slot].functions

\* C24 witness: a lens built from an issue without candidates over the CodeMap of
\* twelve functions has ten seeds and leaves out two functions with fewer calls
\* than some seed.
C24_Witness ==
    \E slot \in Slots :
        /\ lenses[slot].built
        /\ lenses[slot].call.entry = "issue"
        /\ lenses[slot].call.given = {}
        /\ Cardinality(DOMAIN repo_map.functions) = 12
        /\ Cardinality(lenses[slot].seeds) = 10
        /\ \E q \in lenses[slot].seeds : \E q2 \in DOMAIN repo_map.functions \ lenses[slot].seeds :
              Len(CodeMapView[q2].calls) < Len(CodeMapView[q].calls)

----------------------------------------------------------------------------
(* Write-back and the grow-only store                                      *)

\* C25: no step removes a path from the store; and when a cache-enabled scan
\* finishes, the store has for every candidate file a row whose mtime, size and
\* sha are those of the file, so that a scan started at once would parse no file.
C25_WriteBackGrowOnly ==
    [][/\ DOMAIN store \subseteq DOMAIN store'
       /\ (pc # "done" /\ pc' = "done" /\ use_cache') =>
             /\ \A n \in 1..Len(files') :
                   LET f == files'[n]
                       sig == FileSignature(fs', f)
                   IN /\ f \in DOMAIN store'
                      /\ store'[f].mtime = sig.mtime
                      /\ store'[f].size = sig.size
                      /\ store'[f].sha = sig.sha
             /\ Partition(fs', TRUE, store', Walk(fs'),
                          [ok |-> TRUE, functions |-> <<>>, work |-> <<>>]).work = <<>>]_vars

\* C25 witness: a cache-enabled scan has finished over two files, one of which
\* does not parse, after a file that had a row was deleted and written again;
\* both have a row that matches them.
C25_Witness ==
    /\ pc = "done"
    /\ use_cache
    /\ Len(files) = 2
    /\ Len(work) >= 1
    /\ \E n \in 1..Len(files) : fs[files[n]].content = SrcBad
    /\ \A n \in 1..Len(files) :
          /\ files[n] \in DOMAIN store
          /\ store[files[n]].sha = fs[files[n]].content.sha
    /\ \E n \in 1..Len(files) : files[n] \notin DOMAIN cache

----------------------------------------------------------------------------
(* SpecTree: the scanner over a tree that also holds files it must skip,   *)
(* and whose files are renamed and moved between scans                     *)

\* a file is renamed or moved (os.rename): it keeps its bytes and its mtime
MoveFile(p, q) ==
    /\ p # q
    /\ fs[p].exists
    /\ fs' = [fs EXCEPT ![q] = fs[p], ![p] = NoFile]
    /\ UNCHANGED <<store, storeOk>>
    /\ UNCHANGED scanVars
    /\ UNCHANGED lensVars

TreeSources == {SrcFG, SrcFH}

NextTree ==
    \/ ScanStep
    \/ pc = "idle" /\ \E p \in TreePaths, c \in TreeSources : WriteFile(p, c, 0)
    \/ pc = "idle" /\ \E p \in TreePaths : DeleteFile(p)
    \/ pc = "idle" /\ \E p, q \in TreePaths : MoveFile(p, q)

SpecTree == Init /\ [][NextTree]_vars

\* the path ends in ".py" and none of its segments starts with "."
Candidate(p) ==
    /\ Len(p) >= 3
    /\ p[Len(p) - 2] = "." /\ p[Len(p) - 1] = "p" /\ p[Len(p)] = "y"
    /\ p[1] # "."
    /\ \A i \in 1..(Len(p) - 1) : p[i] = "/" => p[i + 1] # "."

\* how often x occurs in the sequence seq
Occurrences(seq, x) == Cardinality({n \in 1..Len(seq) : seq[n] = x})

\* C26: while a scan runs and when it has finished, a file of the tree is in the
\* list of files to scan iff it ends in ".py" and no segment of its path starts
\* with "."; such a file is listed once and is either served from a matching row
\* of the cache or given to the parser once; no function of the map, no row
\* written and no row of the store belongs to a file that is not such a file.
C26_CandidateSelection ==
    /\ pc \in {"parse", "aggregate", "commit", "done"} =>
          /\ \A p \in TreePaths :
                /\ Occurrences(files, p) = (IF fs[p].exists /\ Candidate(p) THEN 1 ELSE 0)
                /\ Occurrences(work, p) <= Occurrences(files, p)
                /\ (Occurrences(files, p) = 1 /\ Occurrences(work, p) = 0) =>
                      /\ use_cache
                      /\ p \in DOMAIN cache
                      /\ cache[p].sha = fs[p].content.sha
                /\ pc = "done" =>
                      Cardinality({k \in 1..Len(finished) : work[finished[k]] = p})
                          = Occurrences(work, p)
          /\ \A q \in DOMAIN functions :
                functions[q].file \in TreePaths /\ Candidate(functions[q].file)
    /\ \A p \in DOMAIN txn \cup DOMAIN store : Candidate(p)

\* C26 witness: a cache-enabled scan has finished over a tree that holds every
\* file: the two plain Python sources were scanned, one of them from the cache,
\* and they alone have rows.
C26_Witness ==
    /\ pc = "done"
    /\ use_cache
    /\ \A p \in TreePaths : fs[p].exists
    /\ files = <<P_a, P_b>>
    /\ Len(work) = 1
    /\ DOMAIN store = {P_a, P_b}
    /\ Cardinality(DOMAIN functions) = 2

\* C29: a cache-enabled scan that has finished returns only functions that the
\* files now in the tree, with a ".py" name and outside hidden segments, define,
\* whatever rows the store holds for files that are gone.
C29_NoStaleLeak ==
    (pc = "done" /\ use_cache) =>
        \A q \in DOMAIN functions :
            LET f == functions[q].file
            IN /\ f \in TreePaths
               /\ fs[f].exists
               /\ Candidate(f)
               /\ \E func \in DOMAIN ParseFile(fs, f) :
                     q = Qn(f, func) /\ functions[q] = ParseFile(fs, f)[func]

\* C29 witness: a cache-enabled scan has finished and returned the functions of
\* r/a.py while the cache it loaded held a row for r/b.py, which is gone from
\* its place: its bytes now lie under the hidden directory.
C29_Witness ==
    /\ pc = "done"
    /\ use_cache
    /\ DOMAIN functions # {}
    /\ fs[P_a].exists
    /\ P_b \in DOMAIN cache
    /\ cache[P_b].data.members # {}
    /\ ~fs[P_b].exists
    /\ fs[P_hid].exists
    /\ fs[P_hid].content.sha = cache[P_b].sha
    /\ fs[P_hid].content.sha # fs[P_a].content.sha

----------------------------------------------------------------------------
(* SpecRace: files are rewritten while a scan runs                         *)

RaceSources == {SrcFG, SrcFH}

NextRace ==
    \/ ScanStep
    \/ \E p \in ScanPaths, c \in RaceSources : WriteFile(p, c, 0)

SpecRace == Init /\ [][NextRace]_vars

\* the per-file result of parsing content c as the file p
ResultOf(p, c) ==
    ParseFile([q \in {p} |-> [exists |-> TRUE, content |-> c, mtime |-> 0, readable |-> TRUE]], p)

\* C27: every row of the store, and every row a scan has written, whose sha is
\* that of a content holds the parse result of that content, also when files
\* are rewritten while the scan runs.
C27_RowPairsSignatureWithResult ==
    \A p \in DOMAIN store \cup DOMAIN txn :
        LET row == IF p \in DOMAIN txn THEN txn[p] ELSE store[p]
        IN \A c \in RaceSources :
              row.sha = c.sha => row.data = JsonDumps(ResultOf(p, c))

----------------------------------------------------------------------------
(* The fixed point of hop expansion                                        *)

\* C28: for the CodeMap and the seeds of a lens, once the set kept after h turns
\* equals the set kept after h+1 turns, every later turn keeps the same set; any
\* number of turns from the number of functions on keeps the same set, which is
\* the lens when it was built with that many hops or more; and the lens built
\* from any subset of the seeds with the same hops is within the lens.
C28_HopFixedPoint ==
    \A slot \in Slots : lenses[slot].built =>
        LET recs == CodeMapView
            seeds == lenses[slot].seeds
            hops == lenses[slot].call.hops
            size == Cardinality(DOMAIN recs)
            keeps == KeepTrace(recs, seeds, size + 2)
            after(h) == keeps[h + 1]
        IN /\ \A h \in 0..(size + 1) :
                 after(h) = after(h + 1) =>
                     \A later \in (h + 1)..(size + 2) : after(later) = after(h)
           /\ \A h \in size..(size + 2) : after(h) = after(size)
           /\ hops >= size => DOMAIN lenses[slot].functions = after(size)
           /\ hops <= size + 2 => DOMAIN lenses[slot].functions = after(hops)
           /\ \A fewer \in SUBSET seeds :
                 Kept(recs, fewer, hops) \subseteq DOMAIN lenses[slot].functions

\* C28 witness: a lens built with at least as many hops as the CodeMap has
\* functions, which grew in its first turn and not in its second, and which a
\* smaller seed set would have made smaller.
C28_Witness ==
    \E slot \in Slots :
        /\ lenses[slot].built
        /\ lenses[slot].call.hops = 2
        /\ Cardinality(DOMAIN CodeMapView) = 2
        /\ LET keeps == lenses[slot].call.keeps
           IN /\ keeps[1] # keeps[2]
              /\ keeps[2] = keeps[3]
              /\ DOMAIN lenses[slot].functions = keeps[3]
        /\ \E fewer \in SUBSET lenses[slot].seeds :
              /\ fewer # {}
              /\ Kept(CodeMapView, fewer, 2) # DOMAIN lenses[slot].functions

====
